---- MODULE Spec2Model ----
(***************************************************************************)
(* Model of the Lisa Pascal code model (LisaCodeModel.cpp/.h):             *)
(*   - the dependency driven loader CodeModel::load / parseAndResolve      *)
(*     (specification Spec),                                               *)
(*   - the tree walking binder CodeModelVisitor with Scope::findDecl       *)
(*     (specification BindSpec).                                           *)
(***************************************************************************)
EXTENDS Integers, Sequences, FiniteSets, TLC

(***************************************************************************)
(* Bounds of the model.                                                    *)
(***************************************************************************)
\* number of program/unit files the file system enumerates
NumFiles == 3
\* total number of names in all uses clauses of the project
MaxUses == 3
\* number of identifier tokens in the trees the binder walks
MaxTokens == 3
\* number of units the binder visits after the first, each using earlier ones
MaxImporters == 1
\* number of tokens of a file the pre-scanner reads
MaxStream == 5
\* number of different places of the sources the user visits
NumPlaces == 3
\* number of places the two navigation histories hold together
MaxHisto == 4

(***************************************************************************)
(* The project on disk: files, module names, uses clauses.                 *)
(***************************************************************************)
Files == 1..NumFiles

\* d_moduleName of the files, in lower case as FileSystem keeps them
ModuleNames == <<"a", "b", "c", "d", "e", "f">>

\* the names a uses clause can hold: every unit in lower case, the first
\* unit in upper case, and a unit that is in no file of the project
UsesNames == {ModuleNames[f] : f \in Files} \cup {"A", "zz"}

\* QByteArray::toLower on the names of the model
ToLower(n) == IF n = "A" THEN "a" ELSE IF n = "X" THEN "x" ELSE n

\* FileSystem::findModule: the file defining the unit of that (lower case)
\* name, 0 when there is none.  The lookup is case sensitive.
FindModule(n) ==
    IF \E f \in Files : ModuleNames[f] = n
    THEN CHOOSE f \in Files : ModuleNames[f] = n
    ELSE 0

\* the results CodeFile::findUses can produce: name lists of at most n names
UsesLists(n) == UNION {[1..k -> UsesNames] : k \in 0..n}

\* what one run of PpLexer and Parser over a file can yield: whether the
\* parser reported errors, the number of include directives, the SLOC
ParseOutcomes ==
    { [errors |-> FALSE, includes |-> 0, sloc |-> 1],
      [errors |-> TRUE,  includes |-> 1, sloc |-> 2] }

VARIABLES
    usesOf,      \* file -> result of CodeFile::findUses on the file on disk
    scanned,     \* the files findUses has read so far
    pc,          \* position of CodeModel::load: "idle", "loop", "called",
                 \* "overflow" (call stack exhausted), "done"
    nextSlot,    \* index into fileSlots of the load loop
    stack,       \* active calls of parseAndResolve: [file, i, phase]
    parsed,      \* file -> FileSystem::File::d_parsed
    parseCount,  \* file -> number of Parser runs over the file
    bindCount,   \* file -> number of CodeModelVisitor::visit runs over the file
    imports,     \* file -> CodeFile::d_import
    includes,    \* file -> number of entries of CodeFile::d_includes
    inclSlots,   \* file -> number of include Slots below the file's Slot
    sloc,        \* CodeModel::d_sloc
    diags,       \* the qCritical log: <<file, what>>
    result       \* value returned by load, "none" before it returns

loaderVars == <<usesOf, scanned, pc, nextSlot, stack, parsed, parseCount,
                bindCount, imports, includes, inclSlots, sloc, diags, result>>

VARIABLES
    cf,          \* CodeModelVisitor::d_cf, the file being visited, 0 before
    walk,        \* active visitor routines: [rule, scope, decl, part]
    scopes,      \* the Scope objects: [type, owner, outer, order, cache]
    decls,       \* the Declaration objects: [type, name, loc, owner, body, refs]
    syms,        \* file -> CodeFile::d_syms: [decl, loc]
    fileIntf,    \* file -> CodeFile::d_intf, 0 when absent
    fileImpl,    \* file -> CodeFile::d_impl, 0 when absent
    ntok,        \* number of identifier tokens visited so far
    lineStep,    \* lines from one identifier token of the file to the next
    ev           \* what the last step of the visitor did: [op, scope, name, result]

binderVars == <<cf, walk, scopes, decls, syms, fileIntf, fileImpl, ntok,
                lineStep, ev>>

VARIABLES
    outcomeOf,   \* file -> what PpLexer and Parser yield for the file on disk,
                 \* "none" until the file is parsed for the first time
    prev         \* the model as the previous load left it, "none" before
                 \* load is called a second time

reloadVars == <<outcomeOf, prev>>

VARIABLES
    stream,      \* the tokens the Lexer of CodeFile::findUses delivers
    lexPos,      \* number of tokens nextToken has delivered
    scanPc,      \* position of findUses: "scan", "uses", "returned"
    res          \* the local res of findUses

scanVars == <<stream, lexPos, scanPc, res>>

VARIABLES
    answer       \* the last call of findSymbolBySourcePos: [path, line, col, sym]

queryVars == <<answer>>

VARIABLES
    tearPc,      \* position of ~CodeFile for the file the binder walked:
                 \* "alive", "impl", "intf", "syms", "gone"
    freedScopes, \* the Scope objects deleted
    freedDecls,  \* the Declaration objects deleted
    freedSyms    \* number of entries of d_syms deleted, from the front

tearVars == <<tearPc, freedScopes, freedDecls, freedSyms>>

VARIABLES
    backHisto,    \* CodeNavigator::d_backHisto, the last entry on top
    forwardHisto, \* CodeNavigator::d_forwardHisto
    pushBackLock, \* CodeNavigator::d_pushBackLock
    shown,        \* the place the viewer shows, 0 before the first
    navEv         \* the last handler of the navigator that ran, with the
                  \* histories it found: [op, back, forward]

navVars == <<backHisto, forwardHisto, pushBackLock, shown, navEv>>

vars == <<loaderVars, binderVars, reloadVars, scanVars, queryVars, tearVars, navVars>>

\* depth of the call stack at which the process runs out of stack
MaxDepth == NumFiles + 2

\* total number of names in the uses clauses read so far
RECURSIVE UsesTotal(_)
UsesTotal(S) ==
    IF S = {} THEN 0
    ELSE LET f == CHOOSE x \in S : TRUE
         IN Len(usesOf[f]) + UsesTotal(S \ {f})

Top == stack[Len(stack)]
Pop(stk) == SubSeq(stk, 1, Len(stk) - 1)
SetTop(stk, fr) == [stk EXCEPT ![Len(stk)] = fr]

(***************************************************************************)
(* CodeModel::parseAndResolve                                              *)
(***************************************************************************)
\* a guard that never holds: every call analyses the file again
EntryGuardOff(f) == FALSE

\* line 892: the file is already done
EntryGuard(f) == parsed[f]

NewFrame(f) == [file |-> f, i |-> 0, phase |-> "uses"]

\* entry of parseAndResolve(f) called with the call stack stk: the stack
\* after the early return or after the new activation is set up
ParseAndResolveEntry(stk, f) ==
    IF EntryGuard(f) THEN stk ELSE Append(stk, NewFrame(f))

\* the dependency is not analysed at this point
AnalyzeDependencyOmitted(stk, u) == stk

\* line 909: the recursive call for a resolved unit
AnalyzeDependency(stk, u) == ParseAndResolveEntry(stk, u)

\* the caller gives up on its file at the first unresolved unit
UnresolvedAborts(stk) == Pop(stk)

\* lines 899-904: after the diagnostic the loop goes on with the next name
UnresolvedContinues(stk) == SetTop(stk, [Top EXCEPT !.i = @ + 1])

\* the call of parseAndResolve(f) from a caller whose stack is stk
\* (lines 890-895): early return, stack exhaustion or a new activation that
\* starts by reading the uses clause of the file
Call(stk, stk2, f) ==
    IF Len(stk2) = Len(stk)
    THEN /\ stack' = stk2
         /\ UNCHANGED <<usesOf, scanned>>
         /\ pc' = IF pc = "loop" THEN "called" ELSE pc
    ELSE IF Len(stk2) > MaxDepth
    THEN /\ stack' = stk
         /\ pc' = "overflow"
         /\ UNCHANGED <<usesOf, scanned>>
    ELSE /\ stack' = stk2
         /\ pc' = IF pc = "loop" THEN "called" ELSE pc
         /\ IF f \in scanned
            THEN UNCHANGED <<usesOf, scanned>>
            ELSE /\ \E us \in UsesLists(MaxUses - UsesTotal(scanned)) :
                       usesOf' = [usesOf EXCEPT ![f] = us]
                 /\ scanned' = scanned \cup {f}

\* one iteration of the loop over usedNames, lines 896-911
UsesStep ==
    /\ UNCHANGED <<binderVars, scanVars, queryVars, tearVars, navVars>>
    /\ pc = "called"
    /\ stack # << >>
    /\ Top.phase = "uses"
    /\ Top.i < Len(usesOf[Top.file])
    /\ LET f == Top.file
           n == usesOf[f][Top.i + 1]
           u == FindModule(ToLower(n))
       IN IF u = 0
          THEN /\ diags' = Append(diags, <<f, n>>)
               /\ stack' = UnresolvedContinues(stack)
               /\ UNCHANGED <<imports, usesOf, scanned, pc>>
          ELSE /\ imports' = [imports EXCEPT ![f] = Append(@, u)]
               /\ LET stk == SetTop(stack, [Top EXCEPT !.i = @ + 1])
                  IN Call(stk, AnalyzeDependency(stk, u), u)
               /\ UNCHANGED diags
    /\ UNCHANGED <<nextSlot, parsed, parseCount, bindCount, includes,
                   inclSlots, sloc, result>>
    /\ UNCHANGED reloadVars

\* what lexer and parser yield for file f: any outcome when the file is read
\* for the first time, the same outcome whenever it is read again (the
\* project on disk does not change)
OutcomesOf(f) ==
    IF f \in DOMAIN outcomeOf THEN {outcomeOf[f]} ELSE ParseOutcomes

\* lines 913-939: mark the file, run lexer and parser, log the parser
\* errors, wrap the includes, add the SLOC
ParseFile ==
    /\ UNCHANGED <<binderVars, scanVars, queryVars, tearVars, navVars>>
    /\ pc = "called"
    /\ stack # << >>
    /\ Top.phase = "uses"
    /\ Top.i = Len(usesOf[Top.file])
    /\ LET f == Top.file
       IN \E o \in OutcomesOf(f) :
            /\ outcomeOf' = [g \in DOMAIN outcomeOf \cup {f} |->
                                IF g = f THEN o ELSE outcomeOf[g]]
            /\ parsed' = [parsed EXCEPT ![f] = TRUE]
            /\ parseCount' = [parseCount EXCEPT ![f] = @ + 1]
            /\ diags' = IF o.errors THEN Append(diags, <<f, "syntax">>) ELSE diags
            /\ includes' = [includes EXCEPT ![f] = @ + o.includes]
            /\ sloc' = sloc + o.sloc
            /\ stack' = SetTop(stack, [Top EXCEPT !.phase = "bind"])
    /\ UNCHANGED <<usesOf, scanned, pc, nextSlot, bindCount, imports,
                   inclSlots, result, prev>>

\* lines 941-945: the binder walks the tree, then the call returns
BindFile ==
    /\ UNCHANGED <<binderVars, scanVars, queryVars, tearVars, navVars>>
    /\ pc = "called"
    /\ stack # << >>
    /\ Top.phase = "bind"
    /\ bindCount' = [bindCount EXCEPT ![Top.file] = @ + 1]
    /\ stack' = Pop(stack)
    /\ UNCHANGED <<usesOf, scanned, pc, nextSlot, parsed, parseCount, imports,
                   includes, inclSlots, sloc, diags, result>>
    /\ UNCHANGED reloadVars

(***************************************************************************)
(* CodeModel::load                                                         *)
(***************************************************************************)
\* lines 738-746: reset, enumerate the files, build folders and file slots
LoadStart ==
    /\ UNCHANGED <<binderVars, scanVars, queryVars, tearVars, navVars>>
    /\ pc = "idle"
    /\ pc' = "loop"
    /\ nextSlot' = 1
    /\ sloc' = 0
    /\ UNCHANGED <<usesOf, scanned, stack, parsed, parseCount, bindCount,
                   imports, includes, inclSlots, diags, result>>
    /\ UNCHANGED reloadVars

\* line 752: the loop calls parseAndResolve for the next file slot
LoadCall ==
    /\ UNCHANGED <<binderVars, scanVars, queryVars, tearVars, navVars>>
    /\ pc = "loop"
    /\ nextSlot <= NumFiles
    /\ Call(stack, ParseAndResolveEntry(stack, nextSlot), nextSlot)
    /\ UNCHANGED <<nextSlot, parsed, parseCount, bindCount, imports, includes,
                   inclSlots, sloc, diags, result>>
    /\ UNCHANGED reloadVars

\* lines 753-755: after the call returned, one Slot per include of the file
LoadSlots ==
    /\ UNCHANGED <<binderVars, scanVars, queryVars, tearVars, navVars>>
    /\ pc = "called"
    /\ stack = << >>
    /\ inclSlots' = [inclSlots EXCEPT ![nextSlot] = includes[nextSlot]]
    /\ nextSlot' = nextSlot + 1
    /\ pc' = "loop"
    /\ UNCHANGED <<usesOf, scanned, stack, parsed, parseCount, bindCount,
                   imports, includes, sloc, diags, result>>
    /\ UNCHANGED reloadVars

\* lines 756-757
LoadReturn ==
    /\ UNCHANGED <<binderVars, scanVars, queryVars, tearVars, navVars>>
    /\ pc = "loop"
    /\ nextSlot > NumFiles
    /\ pc' = "done"
    /\ result' = "true"
    /\ UNCHANGED <<usesOf, scanned, nextSlot, stack, parsed, parseCount,
                   bindCount, imports, includes, inclSlots, sloc, diags>>
    /\ UNCHANGED reloadVars

\* the counter keeps its value over the reset
SlocKept(n) == n

\* line 742: d_sloc = 0
SlocAfterReset(n) == 0

\* FileSystem::load, line 743: the tree is enumerated anew, no File of it
\* is marked parsed
FsLoad == [f \in Files |-> FALSE]

\* what a load leaves: per file the imports, the includes and their Slots,
\* the runs of parser and binder over the tree of the file on disk (the
\* graph of a file is what the binder makes of that tree), and the SLOC
Loaded ==
    [imports |-> imports, includes |-> includes, inclSlots |-> inclSlots,
     parsed |-> parsed, parseCount |-> parseCount, bindCount |-> bindCount,
     trees |-> outcomeOf, sloc |-> sloc, result |-> result]

\* load called again on the project, lines 738-746: the Slots, the folders
\* with their CodeFiles, both maps and the SLOC are cleared, the file system
\* enumerates the tree and fillFolders makes new CodeFiles.  diags, the
\* counters of parser and binder runs begin anew with the load.
LoadAgain ==
    /\ pc = "done"
    /\ prev' = <<Loaded>>
    /\ pc' = "loop"
    /\ nextSlot' = 1
    /\ result' = "none"
    /\ inclSlots' = [f \in Files |-> 0]
    /\ imports' = [f \in Files |-> << >>]
    /\ includes' = [f \in Files |-> 0]
    /\ sloc' = SlocAfterReset(sloc)
    /\ parsed' = FsLoad
    /\ parseCount' = [f \in Files |-> 0]
    /\ bindCount' = [f \in Files |-> 0]
    /\ diags' = << >>
    /\ UNCHANGED <<usesOf, scanned, stack, outcomeOf>>
    /\ UNCHANGED <<binderVars, scanVars, queryVars, tearVars, navVars>>

\* the loader before the first load
LoaderInit ==
    /\ usesOf = [f \in Files |-> << >>]
    /\ scanned = {}
    /\ pc = "idle"
    /\ nextSlot = 1
    /\ stack = << >>
    /\ parsed = [f \in Files |-> FALSE]
    /\ parseCount = [f \in Files |-> 0]
    /\ bindCount = [f \in Files |-> 0]
    /\ imports = [f \in Files |-> << >>]
    /\ includes = [f \in Files |-> 0]
    /\ inclSlots = [f \in Files |-> 0]
    /\ sloc = 0
    /\ diags = << >>
    /\ result = "none"

\* the binder before the first visit
BinderInit ==
    /\ cf = 0
    /\ walk = << >>
    /\ scopes = << >>
    /\ decls = << >>
    /\ syms = [f \in Files |-> << >>]
    /\ fileIntf = [f \in Files |-> 0]
    /\ fileImpl = [f \in Files |-> 0]
    /\ ntok = 0
    /\ lineStep = 1
    /\ ev = [op |-> "none", scope |-> 0, name |-> "", result |-> 0]

\* nothing read by the parser yet, no load before this one
ReloadInit ==
    /\ outcomeOf = << >>
    /\ prev = << >>

\* CodeFile::findUses is not running: no stream, nothing collected
ScanIdle ==
    /\ stream = << >>
    /\ lexPos = 0
    /\ scanPc = "returned"
    /\ res = << >>

NoAnswer == [path |-> "", line |-> 0, col |-> 0, sym |-> 0]

\* findSymbolBySourcePos was not called yet
QueryIdle == answer = NoAnswer

\* no object of the graph deleted
TearIdle ==
    /\ tearPc = "alive"
    /\ freedScopes = {}
    /\ freedDecls = {}
    /\ freedSyms = 0

\* CodeNavigator::CodeNavigator and open: both histories empty, the lock off
NavIdle ==
    /\ backHisto = << >>
    /\ forwardHisto = << >>
    /\ pushBackLock = FALSE
    /\ shown = 0
    /\ navEv = [op |-> "none", back |-> << >>, forward |-> << >>]

Init ==
    /\ LoaderInit /\ BinderInit /\ ReloadInit
    /\ ScanIdle /\ QueryIdle /\ TearIdle /\ NavIdle

Next ==
    \/ LoadStart
    \/ LoadCall
    \/ UsesStep
    \/ ParseFile
    \/ BindFile
    \/ LoadSlots
    \/ LoadReturn

Spec == Init /\ [][Next]_vars

\* the project is loaded again and again
ReloadNext ==
    \/ Next
    \/ LoadAgain

ReloadSpec == Init /\ [][ReloadNext]_vars

(***************************************************************************)
(* Scope, Declaration, Symbol (LisaCodeModel.h) and Scope::findDecl        *)
(***************************************************************************)
\* the identifiers of the sources: two names, and the first of them written
\* with a capital letter
Names == {"x", "yy", "X"}

\* the declaring identifiers of the declaration parts, each with the
\* Thing::Type its routine gives it: constants (and enumerated literals),
\* types and variables, two of them of one name
DeclTokens == { [val |-> "x", type |-> "Const"],
                [val |-> "x", type |-> "Var"],
                [val |-> "yy", type |-> "Type"] }

\* the identifiers of procedure and function headings
HeadingTokens == { [val |-> "x", type |-> "Proc"],
                   [val |-> "yy", type |-> "Func"] }

\* RowCol: the bit widths of row and column
ROW_BIT_LEN == 19
COL_BIT_LEN == 32 - ROW_BIT_LEN

\* the layouts of a source file: the identifiers on successive lines, or
\* far apart in a file of more lines than a RowCol row can hold
LineSteps == {1, 2 ^ (ROW_BIT_LEN - 1) - 1}

\* the next identifier token of the tree: every token on a line of its own,
\* lineStep lines after the one before
Token(n) == [val |-> n, row |-> (ntok + 1) * lineStep, col |-> 1]

\* Token::toLoc, packed into the bit fields of RowCol
ToLoc(t) == [row |-> t.row % (2 ^ ROW_BIT_LEN), col |-> t.col % (2 ^ COL_BIT_LEN)]

\* Scope::Scope(): no owner, no outer scope, nothing declared, empty cache;
\* the caller sets type, owner and outer
NewScope(type, owner, outer) ==
    [type |-> type, owner |-> owner, outer |-> outer, order |-> << >>,
     cache |-> [n \in Names |-> 0]]

FileOwner(f) == [kind |-> "file", id |-> f]
DeclOwner(d) == [kind |-> "decl", id |-> d]

Min(S) == CHOOSE m \in S : \A k \in S : m <= k
Max(S) == CHOOSE m \in S : \A k \in S : m >= k

\* the last Declaration of that name in the sequence, 0 when there is none
ScanOrderLast(dcs, order, name) ==
    LET hits == {k \in 1..Len(order) : dcs[order[k]].name = name}
    IN IF hits = {} THEN 0 ELSE order[Max(hits)]

\* the first Declaration of the sequence whose name is that name when the
\* case of the letters is left aside
ScanOrderCaseFolded(dcs, order, name) ==
    LET hits == {k \in 1..Len(order) : ToLower(dcs[order[k]].name) = ToLower(name)}
    IN IF hits = {} THEN 0 ELSE order[Min(hits)]

\* lines 1077-1084: the first Declaration of that name in d_order, 0 when
\* there is none
ScanOrder(dcs, order, name) ==
    LET hits == {k \in 1..Len(order) : dcs[order[k]].name = name}
    IN IF hits = {} THEN 0 ELSE order[Min(hits)]

\* Scope::getCodeFile, lines 1055-1067: the file a scope belongs to, found
\* through the owners
RECURSIVE GetCodeFile(_, _, _)
GetCodeFile(scs, dcs, s) ==
    IF scs[s].owner.kind = "file"
    THEN scs[s].owner.id
    ELSE GetCodeFile(scs, dcs, dcs[scs[s].owner.id].owner)

RECURSIVE FindDecl(_, _, _, _)

\* a lookup that stops at the scope it started in
FindDeclOwnScopeOnly(scs, dcs, s, name) ==
    IF scs[s].cache[name] # 0
    THEN [decl |-> scs[s].cache[name], scopes |-> scs]
    ELSE LET d == ScanOrder(dcs, scs[s].order, name)
         IN IF d # 0
            THEN [decl |-> d, scopes |-> [scs EXCEPT ![s].cache[name] = d]]
            ELSE [decl |-> 0, scopes |-> scs]

\* a lookup that also enters what an outer scope returned into the cache of
\* the scope that asked
RECURSIVE FindDeclCachesOuterResult(_, _, _, _)
FindDeclCachesOuterResult(scs, dcs, s, name) ==
    IF scs[s].cache[name] # 0
    THEN [decl |-> scs[s].cache[name], scopes |-> scs]
    ELSE LET d == ScanOrder(dcs, scs[s].order, name)
         IN IF d # 0
            THEN [decl |-> d, scopes |-> [scs EXCEPT ![s].cache[name] = d]]
            ELSE IF scs[s].outer # 0
                 THEN LET r == FindDeclCachesOuterResult(scs, dcs, scs[s].outer, name)
                      IN [decl |-> r.decl,
                          scopes |-> IF r.decl # 0
                                     THEN [r.scopes EXCEPT ![s].cache[name] = r.decl]
                                     ELSE r.scopes]
                 ELSE [decl |-> 0, scopes |-> scs]

\* a lookup that, at the end of the chain, goes on in the interfaces of the
\* units the file imports, in the order of the uses clause
RECURSIVE FindDeclWithImports(_, _, _, _)
FindDeclWithImports(scs, dcs, s, name) ==
    IF scs[s].cache[name] # 0
    THEN [decl |-> scs[s].cache[name], scopes |-> scs]
    ELSE LET d == ScanOrder(dcs, scs[s].order, name)
         IN IF d # 0
            THEN [decl |-> d, scopes |-> [scs EXCEPT ![s].cache[name] = d]]
            ELSE IF scs[s].outer # 0
                 THEN FindDeclWithImports(scs, dcs, scs[s].outer, name)
                 ELSE LET imp == imports[GetCodeFile(scs, dcs, s)]
                          hits == {k \in 1..Len(imp) :
                                     /\ fileIntf[imp[k]] # 0
                                     /\ ScanOrder(dcs, scs[fileIntf[imp[k]]].order, name) # 0}
                      IN IF hits = {}
                         THEN [decl |-> 0, scopes |-> scs]
                         ELSE LET i == fileIntf[imp[Min(hits)]]
                                  e == ScanOrder(dcs, scs[i].order, name)
                              IN [decl |-> e,
                                  scopes |-> [scs EXCEPT ![i].cache[name] = e,
                                                         ![s].cache[name] = e]]

\* Scope::findDecl, lines 1069-1088: the cache of the scope, then its
\* sequence (a hit goes into the cache), then the outer scope; the lookup
\* in the imports behind the return of line 1088 is never reached.
\* Yields the Declaration (0 for none) and the scopes with their caches.
FindDecl(scs, dcs, s, name) ==
    IF scs[s].cache[name] # 0
    THEN [decl |-> scs[s].cache[name], scopes |-> scs]
    ELSE LET d == ScanOrder(dcs, scs[s].order, name)
         IN IF d # 0
            THEN [decl |-> d, scopes |-> [scs EXCEPT ![s].cache[name] = d]]
            ELSE IF scs[s].outer # 0
                 THEN FindDecl(scs, dcs, scs[s].outer, name)
                 ELSE [decl |-> 0, scopes |-> scs]

(***************************************************************************)
(* CodeModelVisitor                                                        *)
(* The walk over the tree is followed routine by routine: walk holds the   *)
(* active routines with the scope each was called with, and one step is    *)
(* the visit of one identifier token (addDecl or addSym), the entry of a   *)
(* routine that makes a scope, or the return of a routine.  The tree is    *)
(* the input: any sequence of steps the routines allow.  Routines that     *)
(* only pass their scope on to their children do not show; the empty       *)
(* routines of the declaration parts (array_type, record_type, ...) and    *)
(* method_block are left out.                                              *)
(***************************************************************************)
\* the new Declaration is put in front of the sequence
AddDeclFront(scs, dcs, scope, t, type) ==
    LET d == Len(dcs) + 1
    IN [scopes |-> [scs EXCEPT ![scope].order = <<d>> \o @],
        decls  |-> Append(dcs, [type |-> type, name |-> t.val, loc |-> ToLoc(t),
                                owner |-> scope, body |-> 0,
                                refs |-> [f \in Files |-> << >>]])]

\* the new Declaration is appended and takes the place of its name in the
\* cache of the scope
AddDeclEntersCache(scs, dcs, scope, t, type) ==
    LET d == Len(dcs) + 1
    IN [scopes |-> [scs EXCEPT ![scope].order = Append(@, d),
                               ![scope].cache[t.val] = d],
        decls  |-> Append(dcs, [type |-> type, name |-> t.val, loc |-> ToLoc(t),
                                owner |-> scope, body |-> 0,
                                refs |-> [f \in Files |-> << >>]])]

\* the new Declaration is appended to the sequence twice
AddDeclAppendedTwice(scs, dcs, scope, t, type) ==
    LET d == Len(dcs) + 1
    IN [scopes |-> [scs EXCEPT ![scope].order = @ \o <<d, d>>],
        decls  |-> Append(dcs, [type |-> type, name |-> t.val, loc |-> ToLoc(t),
                                owner |-> scope, body |-> 0,
                                refs |-> [f \in Files |-> << >>]])]

\* addDecl, lines 201-210: a new Declaration, appended to the scope
AddDecl(scs, dcs, scope, t, type) ==
    LET d == Len(dcs) + 1
    IN [scopes |-> [scs EXCEPT ![scope].order = Append(@, d)],
        decls  |-> Append(dcs, [type |-> type, name |-> t.val, loc |-> ToLoc(t),
                                owner |-> scope, body |-> 0,
                                refs |-> [f \in Files |-> << >>]])]

\* an identifier that resolves to nothing still gets a Symbol, one without
\* Declaration
AddSymUnresolvedSymbol(scs, dcs, sys, file, scope, t) ==
    LET r == FindDecl(scs, dcs, scope, t.val)
        sy == Len(sys[file]) + 1
    IN IF r.decl # 0
       THEN [scopes |-> r.scopes,
             decls  |-> [dcs EXCEPT ![r.decl].refs[file] = Append(@, sy)],
             syms   |-> [sys EXCEPT ![file] = Append(@, [decl |-> r.decl, loc |-> ToLoc(t)])],
             result |-> r.decl]
       ELSE [scopes |-> r.scopes, decls |-> dcs,
             syms   |-> [sys EXCEPT ![file] = Append(@, [decl |-> 0, loc |-> ToLoc(t)])],
             result |-> 0]

\* the Symbol is put in front of the Declaration's list for the file
AddSymBackReferenceInFront(scs, dcs, sys, file, scope, t) ==
    LET r == FindDecl(scs, dcs, scope, t.val)
        sy == Len(sys[file]) + 1
    IN IF r.decl # 0
       THEN [scopes |-> r.scopes,
             decls  |-> [dcs EXCEPT ![r.decl].refs[file] = <<sy>> \o @],
             syms   |-> [sys EXCEPT ![file] = Append(@, [decl |-> r.decl, loc |-> ToLoc(t)])],
             result |-> r.decl]
       ELSE [scopes |-> r.scopes, decls |-> dcs, syms |-> sys, result |-> 0]

\* the Symbol goes to the file's list but not to the Declaration's list
AddSymNoBackReference(scs, dcs, sys, file, scope, t) ==
    LET r == FindDecl(scs, dcs, scope, t.val)
    IN IF r.decl # 0
       THEN [scopes |-> r.scopes,
             decls  |-> dcs,
             syms   |-> [sys EXCEPT ![file] = Append(@, [decl |-> r.decl, loc |-> ToLoc(t)])],
             result |-> r.decl]
       ELSE [scopes |-> r.scopes, decls |-> dcs, syms |-> sys, result |-> 0]

\* addSym, lines 408-425: look the name up; on a match a new Symbol at the
\* end of the file's list and of the Declaration's list for the file
AddSym(scs, dcs, sys, file, scope, t) ==
    LET r == FindDecl(scs, dcs, scope, t.val)
        sy == Len(sys[file]) + 1
    IN IF r.decl # 0
       THEN [scopes |-> r.scopes,
             decls  |-> [dcs EXCEPT ![r.decl].refs[file] = Append(@, sy)],
             syms   |-> [sys EXCEPT ![file] = Append(@, [decl |-> r.decl, loc |-> ToLoc(t)])],
             result |-> r.decl]
       ELSE [scopes |-> r.scopes, decls |-> dcs, syms |-> sys, result |-> 0]

\* the new Body scope is made its own outer scope
HeadingOuterIsBody(scs, dcs, scope, t, type) ==
    LET a == AddDecl(scs, dcs, scope, t, type)
        d == Len(a.decls)
        b == Len(a.scopes) + 1
    IN [scopes |-> Append(a.scopes, NewScope("Body", DeclOwner(d), b)),
        decls  |-> [a.decls EXCEPT ![d].body = b],
        decl   |-> d,
        body   |-> b]

\* the new Body scope is left without outer scope
HeadingOuterNotSet(scs, dcs, scope, t, type) ==
    LET a == AddDecl(scs, dcs, scope, t, type)
        d == Len(a.decls)
        b == Len(a.scopes) + 1
    IN [scopes |-> Append(a.scopes, NewScope("Body", DeclOwner(d), 0)),
        decls  |-> [a.decls EXCEPT ![d].body = b],
        decl   |-> d,
        body   |-> b]

\* procedure_heading / function_heading, lines 364-371 and 452-459: the
\* Declaration in the scope of the heading and its new Body scope
Heading(scs, dcs, scope, t, type) ==
    LET a == AddDecl(scs, dcs, scope, t, type)
        d == Len(a.decls)
        b == Len(a.scopes) + 1
    IN [scopes |-> Append(a.scopes, NewScope("Body", DeclOwner(d), scope)),
        decls  |-> [a.decls EXCEPT ![d].body = b],
        decl   |-> d,
        body   |-> b]

Frame(rule, scope, decl, part) ==
    [rule |-> rule, scope |-> scope, decl |-> decl, part |-> part]

WTop == walk[Len(walk)]

\* the routines whose children are declaration parts
DeclRules == {"interface_part", "implementation_part", "program", "body_"}
\* the routines whose children hold procedure and function declarations
ProcRules == {"implementation_part", "program", "body_"}
\* the routines whose children hold a statement part
StmtRules == {"program", "body_"}

NoEvent == [op |-> "none", scope |-> 0, name |-> "", result |-> 0]

\* visit and program, lines 36-59: the Body scope of a program file.
\* The binder is followed over the tree of one file, the first.
VisitProgram ==
    /\ walk = << >>
    /\ cf = 0
    /\ cf' = cf + 1
    /\ scopes' = Append(scopes, NewScope("Body", FileOwner(cf + 1), 0))
    /\ fileImpl' = [fileImpl EXCEPT ![cf + 1] = Len(scopes) + 1]
    /\ walk' = <<Frame("program", Len(scopes) + 1, 0, "block")>>
    /\ lineStep' \in LineSteps
    /\ ev' = NoEvent
    /\ UNCHANGED <<decls, syms, fileIntf, ntok>>
    /\ UNCHANGED <<loaderVars, reloadVars, scanVars, queryVars, tearVars, navVars>>

\* visit and regular_unit, lines 36-53 and 73-82
VisitUnit ==
    /\ walk = << >>
    /\ cf = 0
    /\ cf' = cf + 1
    /\ walk' = <<Frame("regular_unit", 0, 0, "start")>>
    /\ lineStep' \in LineSteps
    /\ ev' = NoEvent
    /\ UNCHANGED <<scopes, decls, syms, fileIntf, fileImpl, ntok>>
    /\ UNCHANGED <<loaderVars, reloadVars, scanVars, queryVars, tearVars, navVars>>

\* interface_part, lines 83-88
InterfacePart ==
    /\ walk # << >>
    /\ WTop.rule = "regular_unit"
    /\ WTop.part = "start"
    /\ scopes' = Append(scopes, NewScope("Interface", FileOwner(cf), 0))
    /\ fileIntf' = [fileIntf EXCEPT ![cf] = Len(scopes) + 1]
    /\ walk' = Append([walk EXCEPT ![Len(walk)].part = "interface"],
                      Frame("interface_part", Len(scopes) + 1, 0, "block"))
    /\ ev' = NoEvent
    /\ UNCHANGED <<cf, lineStep, decls, syms, fileImpl, ntok>>
    /\ UNCHANGED <<loaderVars, reloadVars, scanVars, queryVars, tearVars, navVars>>

\* implementation_part, lines 111-116
ImplementationPart ==
    /\ walk # << >>
    /\ WTop.rule = "regular_unit"
    /\ WTop.part \in {"start", "interface"}
    /\ scopes' = Append(scopes, NewScope("Implementation", FileOwner(cf), 0))
    /\ fileImpl' = [fileImpl EXCEPT ![cf] = Len(scopes) + 1]
    /\ walk' = Append([walk EXCEPT ![Len(walk)].part = "implementation"],
                      Frame("implementation_part", Len(scopes) + 1, 0, "block"))
    /\ ev' = NoEvent
    /\ UNCHANGED <<cf, lineStep, decls, syms, fileIntf, ntok>>
    /\ UNCHANGED <<loaderVars, reloadVars, scanVars, queryVars, tearVars, navVars>>

\* constant_declaration, type_declaration, enumerated_type and
\* variable_declaration (lines 185-194, 212-221, 254-259, 321-334): the
\* declared identifier goes to the scope of the routine
Declare ==
    /\ walk # << >>
    /\ WTop.rule \in DeclRules
    /\ WTop.part = "block"
    /\ ntok < MaxTokens
    /\ \E i \in DeclTokens :
          LET a == AddDecl(scopes, decls, WTop.scope, Token(i.val), i.type)
          IN /\ scopes' = a.scopes
             /\ decls' = a.decls
             /\ ev' = [op |-> "addDecl", scope |-> WTop.scope, name |-> i.val,
                       result |-> Len(a.decls)]
    /\ ntok' = ntok + 1
    /\ UNCHANGED <<cf, lineStep, walk, syms, fileIntf, fileImpl>>
    /\ UNCHANGED <<loaderVars, reloadVars, scanVars, queryVars, tearVars, navVars>>

\* parameter_declaration, lines 394-403: the names of a formal parameter
\* section go to the scope handed down by the heading
Parameter ==
    /\ walk # << >>
    /\ WTop.rule = "procedure_heading"
    /\ ntok < MaxTokens
    /\ \E n \in Names :
          LET a == AddDecl(scopes, decls, WTop.scope, Token(n), "Param")
          IN /\ scopes' = a.scopes
             /\ decls' = a.decls
             /\ ev' = [op |-> "addDecl", scope |-> WTop.scope, name |-> n,
                       result |-> Len(a.decls)]
    /\ ntok' = ntok + 1
    /\ UNCHANGED <<cf, lineStep, walk, syms, fileIntf, fileImpl>>
    /\ UNCHANGED <<loaderVars, reloadVars, scanVars, queryVars, tearVars, navVars>>

\* an identifier referenced inside a declaration: simple_type, size_attribute,
\* type_identifier, constant, factor (lines 236-247, 267-272, 426-431,
\* 625-634, 665-684), looked up from the scope of the routine
TypeReference ==
    /\ walk # << >>
    /\ WTop.rule \in DeclRules \cup {"procedure_heading"}
    /\ WTop.part = "block"
    /\ ntok < MaxTokens
    /\ \E n \in Names :
          LET a == AddSym(scopes, decls, syms, cf, WTop.scope, Token(n))
          IN /\ scopes' = a.scopes
             /\ decls' = a.decls
             /\ syms' = a.syms
             /\ ev' = [op |-> "addSym", scope |-> WTop.scope, name |-> n,
                       result |-> a.result]
    /\ ntok' = ntok + 1
    /\ UNCHANGED <<cf, lineStep, walk, fileIntf, fileImpl>>
    /\ UNCHANGED <<loaderVars, reloadVars, scanVars, queryVars, tearVars, navVars>>

\* an identifier referenced in the statement part of a program or of a body:
\* statement_part down to variable_reference, for_statement and factor
\* (lines 476-503, 556-569, 615-624, 647-696)
StatementReference ==
    /\ walk # << >>
    /\ WTop.rule \in StmtRules
    /\ ntok < MaxTokens
    /\ \E n \in Names :
          LET a == AddSym(scopes, decls, syms, cf, WTop.scope, Token(n))
          IN /\ scopes' = a.scopes
             /\ decls' = a.decls
             /\ syms' = a.syms
             /\ ev' = [op |-> "addSym", scope |-> WTop.scope, name |-> n,
                       result |-> a.result]
    /\ walk' = [walk EXCEPT ![Len(walk)].part = "statement"]
    /\ ntok' = ntok + 1
    /\ UNCHANGED <<cf, lineStep, fileIntf, fileImpl>>
    /\ UNCHANGED <<loaderVars, reloadVars, scanVars, queryVars, tearVars, navVars>>

\* an identifier referenced inside a with statement, a case limb or an
\* otherwise clause of the statement part: with_statement, case_limb and
\* otherwise_clause (lines 603-614) have empty bodies, the routine returns
\* and the identifier is passed over
EmptyRoutineReference ==
    /\ walk # << >>
    /\ WTop.rule \in StmtRules
    /\ ntok < MaxTokens
    /\ \E n \in Names :
          ev' = [op |-> "passed", scope |-> WTop.scope, name |-> n, result |-> 0]
    /\ walk' = [walk EXCEPT ![Len(walk)].part = "statement"]
    /\ ntok' = ntok + 1
    /\ UNCHANGED <<cf, lineStep, scopes, decls, syms, fileIntf, fileImpl>>
    /\ UNCHANGED <<loaderVars, reloadVars, scanVars, queryVars, tearVars, navVars>>

\* a heading of an interface part or of a formal parameter section
\* (lines 101-110, 382-393): procedure_heading / function_heading on the
\* scope of the routine; the formal parameters follow on the new scope
HeadingOnly ==
    /\ walk # << >>
    /\ WTop.rule \in {"interface_part", "procedure_heading"}
    /\ ntok < MaxTokens
    /\ \E i \in HeadingTokens :
          LET h == Heading(scopes, decls, WTop.scope, Token(i.val), i.type)
          IN /\ scopes' = h.scopes
             /\ decls' = h.decls
             /\ walk' = Append(walk, Frame("procedure_heading", h.body, h.decl, "block"))
             /\ ev' = [op |-> "addDecl", scope |-> WTop.scope, name |-> i.val,
                       result |-> h.decl]
    /\ ntok' = ntok + 1
    /\ UNCHANGED <<cf, lineStep, syms, fileIntf, fileImpl>>
    /\ UNCHANGED <<loaderVars, reloadVars, scanVars, queryVars, tearVars, navVars>>

\* procedure_declaration / function_declaration up to the heading child
\* (lines 354-359, 432-437).  The frame of the declaration notes the
\* Declaration its heading made; the code does not keep it.
ProcedureDeclaration ==
    /\ walk # << >>
    /\ WTop.rule \in ProcRules
    /\ WTop.part = "block"
    /\ ntok < MaxTokens
    /\ \E i \in HeadingTokens :
          LET h == Heading(scopes, decls, WTop.scope, Token(i.val), i.type)
          IN /\ scopes' = h.scopes
             /\ decls' = h.decls
             /\ walk' = walk \o
                   << Frame("procedure_declaration", WTop.scope, h.decl, "heading"),
                      Frame("procedure_heading", h.body, h.decl, "block") >>
             /\ ev' = [op |-> "addDecl", scope |-> WTop.scope, name |-> i.val,
                       result |-> h.decl]
    /\ ntok' = ntok + 1
    /\ UNCHANGED <<cf, lineStep, syms, fileIntf, fileImpl>>
    /\ UNCHANGED <<loaderVars, reloadVars, scanVars, queryVars, tearVars, navVars>>

\* the scope procedure_declaration / function_declaration hand to body_
\* (lines 360-361, 438-439): the one they were called with
BodyScope(fr) == fr.scope

\* the body child of a procedure or function declaration, lines 360-361,
\* 438-439 and 464-475
Body ==
    /\ walk # << >>
    /\ WTop.rule = "procedure_declaration"
    /\ WTop.part = "heading"
    /\ walk' = Append([walk EXCEPT ![Len(walk)].part = "body"],
                      Frame("body_", BodyScope(WTop), WTop.decl, "block"))
    /\ ev' = NoEvent
    /\ UNCHANGED <<cf, lineStep, scopes, decls, syms, fileIntf, fileImpl, ntok>>
    /\ UNCHANGED <<loaderVars, reloadVars, scanVars, queryVars, tearVars, navVars>>

\* a visitor routine returns to its caller
Leave ==
    /\ walk # << >>
    /\ walk' = SubSeq(walk, 1, Len(walk) - 1)
    /\ ev' = NoEvent
    /\ UNCHANGED <<cf, lineStep, scopes, decls, syms, fileIntf, fileImpl, ntok>>
    /\ UNCHANGED <<loaderVars, reloadVars, scanVars, queryVars, tearVars, navVars>>

BindNext ==
    \/ VisitProgram
    \/ VisitUnit
    \/ InterfacePart
    \/ ImplementationPart
    \/ Declare
    \/ Parameter
    \/ TypeReference
    \/ StatementReference
    \/ EmptyRoutineReference
    \/ HeadingOnly
    \/ ProcedureDeclaration
    \/ Body
    \/ Leave

BindSpec == Init /\ [][BindNext]_vars

(***************************************************************************)
(* The graph of a file is deleted                                          *)
(***************************************************************************)
Range(q) == {q[k] : k \in 1..Len(q)}

\* Scope::~Scope and Declaration::~Declaration, lines 1110-1114 and
\* 1134-1138: the scopes deleted by delete s, that is s and the bodies of
\* the Declarations of the deleted scopes
RECURSIVE ScopesDeleted(_)
ScopesDeleted(s) ==
    {s} \cup UNION {IF decls[d].body # 0 THEN ScopesDeleted(decls[d].body) ELSE {} :
                      d \in Range(scopes[s].order)}

\* the Declarations deleted by delete s: those of the deleted scopes
DeclsDeleted(s) == UNION {Range(scopes[t].order) : t \in ScopesDeleted(s)}

\* CodeFolder::clear, lines 1150-1151: delete d_files[i] for the file the
\* binder has walked; ~CodeFile begins
DeleteCodeFile ==
    /\ tearPc = "alive"
    /\ cf >= 1
    /\ walk = << >>
    /\ tearPc' = "impl"
    /\ UNCHANGED <<freedScopes, freedDecls, freedSyms>>
    /\ UNCHANGED <<loaderVars, binderVars, reloadVars, scanVars, queryVars, navVars>>

\* ~CodeFile, lines 1045-1046: if( d_impl ) delete d_impl
DeleteImpl ==
    /\ tearPc = "impl"
    /\ tearPc' = "intf"
    /\ IF fileImpl[cf] # 0
       THEN /\ freedScopes' = freedScopes \cup ScopesDeleted(fileImpl[cf])
            /\ freedDecls' = freedDecls \cup DeclsDeleted(fileImpl[cf])
       ELSE UNCHANGED <<freedScopes, freedDecls>>
    /\ UNCHANGED freedSyms
    /\ UNCHANGED <<loaderVars, binderVars, reloadVars, scanVars, queryVars, navVars>>

\* ~CodeFile, lines 1047-1048: if( d_intf ) delete d_intf
DeleteIntf ==
    /\ tearPc = "intf"
    /\ tearPc' = "syms"
    /\ IF fileIntf[cf] # 0
       THEN /\ freedScopes' = freedScopes \cup ScopesDeleted(fileIntf[cf])
            /\ freedDecls' = freedDecls \cup DeclsDeleted(fileIntf[cf])
       ELSE UNCHANGED <<freedScopes, freedDecls>>
    /\ UNCHANGED freedSyms
    /\ UNCHANGED <<loaderVars, binderVars, reloadVars, scanVars, queryVars, navVars>>

\* ~CodeFile, lines 1049-1050: delete d_syms[i]
DeleteSym ==
    /\ tearPc = "syms"
    /\ freedSyms < Len(syms[cf])
    /\ freedSyms' = freedSyms + 1
    /\ UNCHANGED <<tearPc, freedScopes, freedDecls>>
    /\ UNCHANGED <<loaderVars, binderVars, reloadVars, scanVars, queryVars, navVars>>

\* ~CodeFile, lines 1049-1053: the loop over d_syms is through, the
\* includes and the CodeFile itself go
DeleteDone ==
    /\ tearPc = "syms"
    /\ freedSyms = Len(syms[cf])
    /\ tearPc' = "gone"
    /\ UNCHANGED <<freedScopes, freedDecls, freedSyms>>
    /\ UNCHANGED <<loaderVars, binderVars, reloadVars, scanVars, queryVars, navVars>>

\* the binder walks the tree of a file, then the CodeFile is deleted
TearNext ==
    \/ BindNext
    \/ DeleteCodeFile
    \/ DeleteImpl
    \/ DeleteIntf
    \/ DeleteSym
    \/ DeleteDone

TearSpec == Init /\ [][TearNext]_vars

(***************************************************************************)
(* The binder over several units, one importing the other                  *)
(***************************************************************************)
\* the d_import a file can have when its tree is visited: parseAndResolve
\* (lines 896-911) has appended the units of its uses clause, each of them
\* analysed before the visit of f begins; f uses at least one unit
ImportLists(f) ==
    {q \in UNION {[1..k -> 1..(f - 1)] : k \in 1..(f - 1)} :
        \A i, j \in 1..Len(q) : i # j => q[i] # q[j]}

\* parseAndResolve, lines 896-911 and 941-942, and visit, lines 36-53: the
\* visit of the next unit, one that uses units visited before
VisitImporter ==
    /\ walk = << >>
    /\ cf >= 1
    /\ cf < NumFiles
    /\ cf <= MaxImporters
    /\ cf' = cf + 1
    /\ imports' \in {[imports EXCEPT ![cf + 1] = q] : q \in ImportLists(cf + 1)}
    /\ walk' = <<Frame("regular_unit", 0, 0, "start")>>
    /\ lineStep' \in LineSteps
    /\ ev' = NoEvent
    /\ UNCHANGED <<scopes, decls, syms, fileIntf, fileImpl, ntok>>
    /\ UNCHANGED <<usesOf, scanned, pc, nextSlot, stack, parsed, parseCount,
                   bindCount, includes, inclSlots, sloc, diags, result>>
    /\ UNCHANGED <<reloadVars, scanVars, queryVars, tearVars, navVars>>

\* the units of a project, declarations and references in their interface
\* and implementation parts
ImportNext ==
    \/ VisitUnit
    \/ VisitImporter
    \/ InterfacePart
    \/ Declare
    \/ TypeReference
    \/ Leave

ImportSpec == Init /\ [][ImportNext]_vars

\* Declaration::getCodeFile, lines 1129-1133
DeclCodeFile(d) == GetCodeFile(scopes, decls, decls[d].owner)

\* the units of file f's d_import whose interface declares the name n
ImportsDeclaring(f, n) ==
    {k \in 1..Len(imports[f]) :
        /\ fileIntf[imports[f][k]] # 0
        /\ \E j \in 1..Len(scopes[fileIntf[imports[f][k]]].order) :
              decls[scopes[fileIntf[imports[f][k]]].order[j]].name = n}

\* C11: a lookup never returns a Declaration of another file than the one
\* owning the scope it started in, also when a unit of the uses clause
\* declares the name in its interface; so every Symbol of a file's list
\* resolves to a Declaration of that file and the reverse-reference map of a
\* Declaration has entries for its own file only.
C11_NoCrossFileLookup ==
    /\ \A s \in 1..Len(scopes) : \A n \in Names :
          LET d == FindDecl(scopes, decls, s, n).decl
          IN d # 0 => DeclCodeFile(d) = GetCodeFile(scopes, decls, s)
    /\ (ev.op = "addSym" /\ ev.result # 0) => DeclCodeFile(ev.result) = cf
    /\ \A f \in Files : \A k \in 1..Len(syms[f]) :
          DeclCodeFile(syms[f][k].decl) = f
    /\ \A d \in 1..Len(decls) : \A f \in Files :
          decls[d].refs[f] # << >> => f = DeclCodeFile(d)

\* a unit referred to a name that only the interface of a unit it uses
\* declares, and the lookup found nothing
C11_Witness ==
    /\ ev.op = "addSym"
    /\ ev.result = 0
    /\ cf >= 2
    /\ ImportsDeclaring(cf, ev.name) # {}

(***************************************************************************)
(* CodeFile::findUses                                                      *)
(***************************************************************************)
\* the token types findUses tells apart, next to the keywords of the
\* declaration parts
TokenTypes == {"uses", "identifier", "Comma", "Slash", "Semi"}

\* the keywords that begin the parts of a program or unit
PartKeywords ==
    {"label", "var", "const", "type", "procedure", "function", "implementation"}

\* the token streams of the files: the tokens above and, per file, one of
\* the keywords
Streams ==
    UNION {[1..k -> TokenTypes \cup {w}] : k \in 0..MaxStream, w \in PartKeywords}

\* the case labels of lines 1030-1036 without the last
StopKeywordsWithoutImplementation ==
    {"label", "var", "const", "type", "procedure", "function"}

\* the case labels of lines 1030-1036
StopKeywords ==
    {"label", "var", "const", "type", "procedure", "function", "implementation"}

\* the token the Lexer delivers at the end of the stream
InvalidToken == [type |-> "Invalid", val |-> 0]

\* the p-th token nextToken delivers; every identifier has a name of its
\* own, written as its position in the stream
TokenAt(p) ==
    IF p \in 1..Len(stream) THEN [type |-> stream[p], val |-> p] ELSE InvalidToken

\* Token::isValid
IsValid(t) == t.type # "Invalid"

\* of a qualified name the leading identifier is kept
UsesItemKeepsLeading(r, p) ==
    IF TokenAt(p + 1).type = "Slash"
    THEN IF TokenAt(p + 2).type = "identifier"
         THEN [res |-> Append(r, TokenAt(p).val), pos |-> p + 3]
         ELSE [res |-> r, pos |-> p + 2]
    ELSE [res |-> Append(r, TokenAt(p).val), pos |-> p + 1]

\* lines 1012-1026, the identifier at position p of the uses clause: the
\* list res after it and the position of the token the loop goes on with
UsesItem(r, p) ==
    IF TokenAt(p + 1).type = "Slash"
    THEN IF TokenAt(p + 2).type = "identifier"
         THEN [res |-> Append(r, TokenAt(p + 2).val), pos |-> p + 3]
         ELSE [res |-> r, pos |-> p + 2]
    ELSE [res |-> Append(r, TokenAt(p).val), pos |-> p + 1]

\* lines 987-997: the Lexer is set on the file and the first token fetched
ScanStart ==
    /\ stream \in Streams
    /\ lexPos = 1
    /\ scanPc = "scan"
    /\ res = << >>

\* one iteration of the outer loop, lines 998-1040
ScanToken ==
    /\ scanPc = "scan"
    /\ LET t == TokenAt(lexPos)
       IN IF ~IsValid(t)
          THEN scanPc' = "returned" /\ lexPos' = lexPos
          ELSE IF t.type = "uses"
          THEN scanPc' = "uses" /\ lexPos' = lexPos + 1
          ELSE IF t.type \in StopKeywords
          THEN scanPc' = "returned" /\ lexPos' = lexPos
          ELSE scanPc' = scanPc /\ lexPos' = lexPos + 1
    /\ UNCHANGED <<stream, res>>
    /\ UNCHANGED <<loaderVars, binderVars, reloadVars, queryVars, tearVars, navVars>>

\* one iteration of the loop over the uses clause, lines 1005-1029
ClauseToken ==
    /\ scanPc = "uses"
    /\ LET t == TokenAt(lexPos)
       IN IF ~IsValid(t) \/ t.type = "Semi"
          THEN scanPc' = "returned" /\ lexPos' = lexPos /\ res' = res
          ELSE IF t.type = "Comma"
          THEN scanPc' = scanPc /\ lexPos' = lexPos + 1 /\ res' = res
          ELSE IF t.type = "identifier"
          THEN /\ scanPc' = scanPc
               /\ lexPos' = UsesItem(res, lexPos).pos
               /\ res' = UsesItem(res, lexPos).res
          ELSE scanPc' = scanPc /\ lexPos' = lexPos + 1 /\ res' = res
    /\ UNCHANGED stream
    /\ UNCHANGED <<loaderVars, binderVars, reloadVars, queryVars, tearVars, navVars>>

ScanInit ==
    LoaderInit /\ BinderInit /\ ReloadInit /\ QueryIdle /\ TearIdle /\ NavIdle /\ ScanStart

ScanNext ==
    \/ ScanToken
    \/ ClauseToken

ScanSpec == ScanInit /\ [][ScanNext]_vars

\* findUses is straight sequential code: it goes on until it returns
FairScanSpec == ScanSpec /\ WF_vars(ScanNext)

(***************************************************************************)
(* CodeModel::findSymbolBySourcePos                                        *)
(***************************************************************************)
\* FileSystem::File::d_realPath of the files
RealPaths == <<"/a.pas", "/b.pas", "/c.pas", "/d.pas", "/e.pas", "/f.pas">>

\* d_map2.value(path), lines 742 and 970: the CodeFile entered under that
\* real path by fillFolders, 0 when there is no entry; empty before a load
Map2(path) ==
    IF pc # "idle" /\ \E f \in Files : RealPaths[f] = path
    THEN CHOOSE f \in Files : RealPaths[f] = path
    ELSE 0

\* Declaration::getLen, LisaCodeModel.h line 70: the size of the name as
\* quint16
GetLen(d) == Len(decls[d].name) % (2 ^ 16)

\* the column one past the name counts as inside
MatchesClosedRange(s, line, col) ==
    /\ s.decl # 0
    /\ s.loc.row = line
    /\ s.loc.col <= col
    /\ col <= s.loc.col + GetLen(s.decl)

\* the condition of lines 776-777
Matches(s, line, col) ==
    /\ s.decl # 0
    /\ s.loc.row = line
    /\ s.loc.col <= col
    /\ col < s.loc.col + GetLen(s.decl)

\* the foreach of lines 774-779 from position k of the list on: the index
\* of the Symbol returned, 0 when the loop runs out
RECURSIVE ScanSyms(_, _, _, _)
ScanSyms(list, k, line, col) ==
    IF k > Len(list) THEN 0
    ELSE IF Matches(list[k], line, col) THEN k
    ELSE ScanSyms(list, k + 1, line, col)

\* findSymbolBySourcePos, lines 769-782
FindSymbolBySourcePos(path, line, col) ==
    IF Map2(path) = 0 THEN 0
    ELSE ScanSyms(syms[Map2(path)], 1, line, col)

\* the Symbols a file's list can hold: the tokens of the file and of the
\* files it includes carry row and column of their own file, so that
\* Symbols of one list can lie on one row, side by side or over one another
SymbolsAt == [decl : {1, 2}, loc : [row : 1..2, col : 1..2]]

SymLists == UNION {[1..k -> SymbolsAt] : k \in 0..MaxTokens}

\* the positions of the list that hold a Symbol of Declaration d
SymbolsOf(list, d) == {k \in 1..Len(list) : list[k].decl = d}

\* the set S of list positions as the list d_refs holds them, in the order
\* of the appends
RECURSIVE InOrder(_)
InOrder(S) ==
    IF S = {} THEN << >> ELSE <<Min(S)>> \o InOrder(S \ {Min(S)})

\* the loader after the load of a project without uses clauses, each file
\* with a faulty construct and an include
LoadedNoUses ==
    /\ usesOf = [f \in Files |-> << >>]
    /\ scanned = Files
    /\ pc = "done"
    /\ nextSlot = NumFiles + 1
    /\ stack = << >>
    /\ parsed = [f \in Files |-> TRUE]
    /\ parseCount = [f \in Files |-> 1]
    /\ bindCount = [f \in Files |-> 1]
    /\ imports = [f \in Files |-> << >>]
    /\ includes = [f \in Files |-> 1]
    /\ inclSlots = [f \in Files |-> 1]
    /\ sloc = 2 * NumFiles
    /\ diags = [f \in Files |-> <<f, "syntax">>]
    /\ result = "true"
    /\ outcomeOf = [f \in Files |-> [errors |-> TRUE, includes |-> 1, sloc |-> 2]]
    /\ prev = << >>

\* the graph of the first file after the binder walked
\* "program p; const x = ..; type yy = ..;" and a statement part whose
\* references gave the Symbols of list; the other files are empty
BoundProgram(list) ==
    /\ cf = NumFiles
    /\ walk = << >>
    /\ scopes = << [type |-> "Body", owner |-> FileOwner(1), outer |-> 0,
                    order |-> <<1, 2>>,
                    cache |-> [n \in Names |->
                                 IF n = "x" /\ SymbolsOf(list, 1) # {} THEN 1
                                 ELSE IF n = "yy" /\ SymbolsOf(list, 2) # {} THEN 2
                                 ELSE 0]] >>
    /\ decls = << [type |-> "Const", name |-> "x", loc |-> [row |-> 1, col |-> 1],
                   owner |-> 1, body |-> 0,
                   refs |-> [f \in Files |->
                               IF f = 1 THEN InOrder(SymbolsOf(list, 1)) ELSE << >>]],
                  [type |-> "Type", name |-> "yy", loc |-> [row |-> 2, col |-> 1],
                   owner |-> 1, body |-> 0,
                   refs |-> [f \in Files |->
                               IF f = 1 THEN InOrder(SymbolsOf(list, 2)) ELSE << >>]] >>
    /\ syms = [f \in Files |-> IF f = 1 THEN list ELSE << >>]
    /\ fileIntf = [f \in Files |-> 0]
    /\ fileImpl = [f \in Files |-> IF f = 1 THEN 1 ELSE 0]
    /\ ntok = 2 + Len(list)
    /\ lineStep = 1
    /\ ev = NoEvent

\* the model a query meets: nothing loaded yet, or a loaded project
QueryInit ==
    /\ ScanIdle
    /\ QueryIdle
    /\ TearIdle
    /\ NavIdle
    /\ \/ LoaderInit /\ BinderInit /\ ReloadInit
       \/ LoadedNoUses /\ \E list \in SymLists : BoundProgram(list)

\* the paths, lines and columns asked for
QueryPaths == {RealPaths[1], "/readme.txt"}
QueryLines == 1..2
QueryCols == 0..4

\* a call of findSymbolBySourcePos
Query ==
    /\ \E path \in QueryPaths, line \in QueryLines, col \in QueryCols :
          answer' = [path |-> path, line |-> line, col |-> col,
                     sym |-> FindSymbolBySourcePos(path, line, col)]
    /\ UNCHANGED <<loaderVars, binderVars, reloadVars, scanVars, tearVars, navVars>>

QueryNext == Query

QuerySpec == QueryInit /\ [][QueryNext]_vars

(***************************************************************************)
(* CodeNavigator: the navigation histories                                 *)
(***************************************************************************)
\* the Places the user can be at: path, position and scroll offset, Places
\* that operator== takes for equal being one
Places == 1..NumPlaces

Last(q) == q[Len(q)]
PopBack(q) == SubSeq(q, 1, Len(q) - 1)

\* QList::removeAll
RemoveAll(q, p) == SelectSeq(q, LAMBDA x : x # p)

\* pushLocation, lines 473-481: the back history after the call
PushLocationTo(back, lock, p) ==
    IF lock
    THEN back
    ELSE IF back # << >> /\ Last(back) = p
         THEN back
         ELSE Append(RemoveAll(back, p), p)

\* the place stays on top of the forward history
GoForwardKeepsEntry(back, forward) ==
    [back |-> Append(back, Last(forward)), forward |-> forward,
     shown |-> Last(forward)]

\* onGoForward past its guard, lines 646-649
GoForward(back, forward) ==
    [back |-> Append(back, Last(forward)), forward |-> PopBack(forward),
     shown |-> Last(forward)]

\* onGoBack past its guard, lines 634-638
GoBack(back, forward) ==
    [back |-> PopBack(back), forward |-> Append(forward, Last(back)),
     shown |-> Last(PopBack(back))]

\* Viewer::mousePressEvent and onGotoDefinition, lines 171-175 and 690-697:
\* the cursor is put on a place and the place is pushed
PushLocation ==
    /\ Len(backHisto) + Len(forwardHisto) < MaxHisto
    /\ \E p \in Places :
          /\ backHisto' = PushLocationTo(backHisto, pushBackLock, p)
          /\ shown' = p
    /\ navEv' = [op |-> "push", back |-> backHisto, forward |-> forwardHisto]
    /\ UNCHANGED <<forwardHisto, pushBackLock>>
    /\ UNCHANGED <<loaderVars, binderVars, reloadVars, scanVars, queryVars, tearVars>>

\* onGoBack, lines 629-640; the lock is set at line 634 and taken off at
\* line 638
OnGoBack ==
    /\ IF Len(backHisto) <= 1
       THEN UNCHANGED <<backHisto, forwardHisto, shown>>
       ELSE LET g == GoBack(backHisto, forwardHisto)
            IN /\ backHisto' = g.back
               /\ forwardHisto' = g.forward
               /\ shown' = g.shown
    /\ pushBackLock' = FALSE
    /\ navEv' = [op |-> "back", back |-> backHisto, forward |-> forwardHisto]
    /\ UNCHANGED <<loaderVars, binderVars, reloadVars, scanVars, queryVars, tearVars>>

\* onGoForward, lines 642-650
OnGoForward ==
    /\ IF forwardHisto = << >>
       THEN UNCHANGED <<backHisto, forwardHisto, shown>>
       ELSE LET g == GoForward(backHisto, forwardHisto)
            IN /\ backHisto' = g.back
               /\ forwardHisto' = g.forward
               /\ shown' = g.shown
    /\ navEv' = [op |-> "forward", back |-> backHisto, forward |-> forwardHisto]
    /\ UNCHANGED pushBackLock
    /\ UNCHANGED <<loaderVars, binderVars, reloadVars, scanVars, queryVars, tearVars>>

NavNext ==
    \/ PushLocation
    \/ OnGoBack
    \/ OnGoForward

NavSpec == Init /\ [][NavNext]_vars

(***************************************************************************)
(* Properties of the loader                                                *)
(***************************************************************************)
\* the files the names of f's uses clause resolve to
ResolvedUses(f) ==
    {FindModule(ToLower(usesOf[f][k])) : k \in 1..Len(usesOf[f])} \ {0}

\* the positions of f's uses clause that hold the name n
UsesPositions(f, n) == {k \in 1..Len(usesOf[f]) : usesOf[f][k] = n}

\* the positions of the log that hold the entry e
LogPositions(e) == {k \in 1..Len(diags) : diags[k] = e}

Bound(f) == bindCount[f] > 0

\* C1: on a cyclic uses graph the call for a file that is already being
\* analysed returns at once: no file has two activations of parseAndResolve
\* at the same time and the load never exhausts the call stack.
C1_ReentrantCallReturns ==
    /\ pc # "overflow"
    /\ \A j, k \in 1..Len(stack) : j # k => stack[j].file # stack[k].file

\* C2: when the binder is about to walk the tree of a file A, every file B
\* that a name of A's uses clause resolves to is marked parsed and has been
\* bound, wherever in the call chain A is.
C2_DependenciesBoundFirst ==
    \A k \in 1..Len(stack) :
        stack[k].phase = "bind" =>
            \A u \in ResolvedUses(stack[k].file) : parsed[u] /\ Bound(u)

\* a file reached as a dependency, itself with a resolved dependency, is
\* about to be bound
C2_Witness ==
    /\ Len(stack) >= 2
    /\ Top.phase = "bind"
    /\ ResolvedUses(Top.file) # {}

\* C3: every file is parsed and bound at most once during a load; a call
\* of parseAndResolve for a parsed file sets up no activation, and a step
\* changes nothing of a file whose analysis is complete (parser runs,
\* binder runs, includes, imports) nor the SLOC without a first parser run.
C3_ParsedAtMostOnce ==
    /\ [](\A f \in Files : parseCount[f] <= 1 /\ bindCount[f] <= 1)
    /\ [][ /\ Len(stack') > Len(stack) => ~parsed[stack'[Len(stack')].file]
           /\ \A f \in Files :
                 (parsed[f] /\ Bound(f)) =>
                     /\ parseCount'[f] = parseCount[f]
                     /\ bindCount'[f] = bindCount[f]
                     /\ includes'[f] = includes[f]
                     /\ imports'[f] = imports[f]
                     /\ parsed'[f]
           /\ (\A f \in Files : parseCount'[f] = parseCount[f]) => sloc' = sloc
         ]_vars

\* the load is over and a file named in the uses clauses of two other
\* files was parsed once
C3_Witness ==
    /\ pc = "done"
    /\ \E f, g, h \in Files :
          /\ g # h /\ f # g /\ f # h
          /\ f \in ResolvedUses(g) /\ f \in ResolvedUses(h)
          /\ parseCount[f] = 1 /\ bindCount[f] = 1

\* C4: for each name of a file's uses clause that cannot be resolved the
\* log holds exactly one diagnostic (never more, and one per occurrence once
\* the file is analysed), no import is recorded for it, the resolved names
\* are imported and the file is parsed and bound.
C4_OneDiagnosticPerUnresolvedName ==
    \A f \in scanned : \A n \in UsesNames :
        FindModule(ToLower(n)) = 0 =>
            /\ Cardinality(LogPositions(<<f, n>>)) <= Cardinality(UsesPositions(f, n))
            /\ Bound(f) =>
                  Cardinality(LogPositions(<<f, n>>)) = Cardinality(UsesPositions(f, n))
            /\ pc = "done" => parsed[f] /\ Bound(f)

\* C5: neither parser errors nor unresolved units stop the load: a parsed
\* file that is not bound yet is the one the binder runs on next, and when
\* load has returned it returned true and every file is parsed and bound.
C5_ErrorsNeverStopLoad ==
    /\ \A f \in Files :
          (parsed[f] /\ ~Bound(f)) =>
              /\ stack # << >>
              /\ Top.file = f
              /\ Top.phase = "bind"
    /\ pc = "done" =>
          /\ result = "true"
          /\ \A f \in Files : parsed[f] /\ Bound(f)
    /\ result = "true" => pc = "done"

\* load has returned although one file had both a syntax error and an
\* unresolved unit in its uses clause
C5_Witness ==
    /\ pc = "done"
    /\ \E f \in Files :
          /\ LogPositions(<<f, "syntax">>) # {}
          /\ LogPositions(<<f, "zz">>) # {}
          /\ Bound(f)

(***************************************************************************)
(* Properties of scopes, lookup and the binder                             *)
(***************************************************************************)
ScopeIds == 1..Len(scopes)
DeclIds == 1..Len(decls)

\* the Declarations of scope s with the name n
Named(s, n) == {d \in DeclIds : decls[d].owner = s /\ decls[d].name = n}

\* the positions of the sequence of scope s that hold a Declaration named n
PositionsOf(s, n) ==
    {k \in 1..Len(scopes[s].order) : decls[scopes[s].order[k]].name = n}

\* the lookup without cache: the first Declaration named n, in insertion
\* order, of the innermost scope of the chain s, s.outer, ... that has one
RECURSIVE ChainLookup(_, _)
ChainLookup(s, n) ==
    IF PositionsOf(s, n) # {}
    THEN scopes[s].order[Min(PositionsOf(s, n))]
    ELSE IF scopes[s].outer # 0
         THEN ChainLookup(scopes[s].outer, n)
         ELSE 0

\* C6: findDecl started at a scope returns the first Declaration of that
\* name, in insertion order, of the innermost scope of the chain that holds
\* one, and none exactly when no scope of the chain holds one: for the
\* lookup the binder just made and for a lookup of any name from any scope.
C6_FindDeclInnermostFirst ==
    /\ \A s \in ScopeIds : \A n \in Names :
          FindDecl(scopes, decls, s, n).decl = ChainLookup(s, n)
    /\ ev.op = "addSym" => ev.result = ChainLookup(ev.scope, ev.name)

\* the binder's lookup found the name in an outer scope of the one it
\* started in
C6_Witness ==
    /\ ev.op = "addSym"
    /\ ev.result # 0
    /\ decls[ev.result].owner # ev.scope
    /\ decls[ev.result].owner = scopes[ev.scope].outer

\* C7: when a scope holds two Declarations of one name, every lookup of the
\* name in that scope returns the one appended first (the older one), in
\* every state the appends and lookups of the binder can lead to.
C7_FirstAppendedWins ==
    \A s \in ScopeIds : \A n \in Names :
        Cardinality(Named(s, n)) >= 2 =>
            /\ FindDecl(scopes, decls, s, n).decl = Min(Named(s, n))
            /\ scopes[s].cache[n] \in {0, Min(Named(s, n))}
            /\ (ev.op = "addSym" /\ ev.scope = s /\ ev.name = n) =>
                   ev.result = Min(Named(s, n))

\* the binder looked a name up in a scope that holds two Declarations of it
C7_Witness ==
    /\ ev.op = "addSym"
    /\ Cardinality(Named(ev.scope, ev.name)) >= 2
    /\ ev.result = Min(Named(ev.scope, ev.name))

\* C8: a step that declares a name makes exactly one new Declaration and
\* appends it at the end of the sequence of the scope the routine was given;
\* the older Declarations, the sequences of all other scopes and the Symbol
\* lists stay as they are, whether or not the name was declared there before.
C8_AddDeclAppendsOnly ==
    [][ ev'.op = "addDecl" =>
          /\ Len(decls') = Len(decls) + 1
          /\ ev'.result = Len(decls')
          /\ ev'.scope = WTop.scope
          /\ decls'[ev'.result].owner = ev'.scope
          /\ decls'[ev'.result].name = ev'.name
          /\ scopes'[ev'.scope].order = Append(scopes[ev'.scope].order, ev'.result)
          /\ \A t \in 1..Len(scopes) :
                t # ev'.scope => scopes'[t].order = scopes[t].order
          /\ \A t \in 1..Len(scopes') : t > Len(scopes) => scopes'[t].order = << >>
          /\ \A e \in 1..Len(decls) : decls'[e] = decls[e]
          /\ syms' = syms
      ]_vars

\* a name was declared in a scope that already held a Declaration of it
C8_Witness ==
    /\ ev.op = "addDecl"
    /\ \E d \in DeclIds :
          /\ d < ev.result
          /\ decls[d].owner = ev.scope
          /\ decls[d].name = ev.name

\* the positions of Declaration d's reverse-reference list for file f that
\* hold the Symbol k of f's list
RefPositions(d, f, k) ==
    {j \in 1..Len(decls[d].refs[f]) : decls[d].refs[f][j] = k}

\* C12: in every state during and after the walk, every Symbol of a file's
\* list is exactly once in the reverse-reference list, for that file, of the
\* Declaration it resolves to; and every entry of a Declaration's list for a
\* file is a Symbol of that file's list that resolves to the Declaration.
C12_ReverseReferencesConsistent ==
    /\ \A f \in Files : \A k \in 1..Len(syms[f]) :
          /\ syms[f][k].decl \in DeclIds
          /\ Cardinality(RefPositions(syms[f][k].decl, f, k)) = 1
    /\ \A d \in DeclIds : \A f \in Files : \A j \in 1..Len(decls[d].refs[f]) :
          /\ decls[d].refs[f][j] \in 1..Len(syms[f])
          /\ syms[f][decls[d].refs[f][j]].decl = d

\* two references in the file resolved to one Declaration
C12_Witness ==
    /\ cf # 0
    /\ Len(syms[cf]) = 2
    /\ \E d \in DeclIds : Len(decls[d].refs[cf]) = 2

\* C13: when no scope of the chain holds a Declaration of the referenced
\* name, addSym finds nothing, makes no Symbol and logs nothing: the Symbol
\* lists, the Declarations with their reverse-reference lists, the sequences
\* and the caches of all scopes stay as they were.
C13_UnresolvedLeavesNoTrace ==
    [][ (ev'.op = "addSym" /\ ChainLookup(ev'.scope, ev'.name) = 0) =>
          /\ ev'.result = 0
          /\ syms' = syms
          /\ decls' = decls
          /\ scopes' = scopes
          /\ diags' = diags
      ]_vars

\* a name was referred to that no scope of the chain declares, while the
\* chain declares another name
C13_Witness ==
    /\ ev.op = "addSym"
    /\ ev.result = 0
    /\ ChainLookup(ev.scope, ev.name) = 0
    /\ scopes[ev.scope].outer # 0
    /\ \E n \in Names : ChainLookup(ev.scope, n) # 0

\* C14: every procedure or function heading, in an interface part, in a
\* declaration or as procedural formal parameter, appends a Proc or Func
\* Declaration to the scope the heading routine works on and makes a new Body
\* scope; in every state the scope a Declaration owns has that Declaration
\* as owner and the Declaration's scope as outer scope, and the formal
\* parameters are Param Declarations of that child scope, not of the scope
\* of the heading.
C14_HeadingMakesChildScope ==
    /\ \A d \in DeclIds :
          /\ decls[d].type \in {"Proc", "Func"} <=> decls[d].body # 0
          /\ decls[d].body # 0 =>
                /\ decls[d].body \in ScopeIds
                /\ scopes[decls[d].body].type = "Body"
                /\ scopes[decls[d].body].owner = DeclOwner(d)
                /\ scopes[decls[d].body].outer = decls[d].owner
                /\ \E k \in 1..Len(scopes[decls[d].owner].order) :
                      scopes[decls[d].owner].order[k] = d
          /\ decls[d].type = "Param" =>
                /\ scopes[decls[d].owner].owner.kind = "decl"
                /\ LET h == scopes[decls[d].owner].owner.id
                   IN /\ decls[h].type \in {"Proc", "Func"}
                      /\ decls[h].body = decls[d].owner
                      /\ decls[h].owner # decls[d].owner
                      /\ \A k \in 1..Len(scopes[decls[h].owner].order) :
                            scopes[decls[h].owner].order[k] # d
    /\ (ev.op = "addDecl" /\ decls[ev.result].type \in {"Proc", "Func"}) =>
          /\ decls[ev.result].owner = ev.scope
          /\ scopes[ev.scope].order[Len(scopes[ev.scope].order)] = ev.result
          /\ decls[ev.result].body = Len(scopes)
          /\ scopes[Len(scopes)].order = << >>
          /\ WTop.rule = "procedure_heading"
          /\ WTop.scope = decls[ev.result].body

\* a formal parameter was declared for a heading that is itself a
\* procedural formal parameter of another heading
C14_Witness ==
    /\ ev.op = "addDecl"
    /\ decls[ev.result].type = "Param"
    /\ scopes[ev.scope].outer # 0
    /\ scopes[scopes[ev.scope].outer].owner.kind = "decl"

\* C15: after a lookup of a name started at a scope has succeeded, the cache
\* of that very scope maps the name to the Declaration returned, also when
\* the Declaration was found in an outer scope.
C15_LookupMemoizedAtStart ==
    (ev.op = "addSym" /\ ev.result # 0) =>
        scopes[ev.scope].cache[ev.name] = ev.result

\* the positions of file f's Symbol list whose Symbol is on that line and
\* covers that column with the name of its Declaration
Covering(f, line, col) ==
    {k \in 1..Len(syms[f]) :
        /\ syms[f][k].loc.row = line
        /\ syms[f][k].loc.col <= col
        /\ col < syms[f][k].loc.col + Len(decls[syms[f][k].decl].name)}

\* C16: findSymbolBySourcePos returns the first Symbol of the file's list,
\* in list order, that is on the queried row and whose columns
\* [start, start + length of the Declaration's name) hold the queried
\* column; none when the file has no such Symbol or the path is not the real
\* path of a loaded program or unit file; the call changes nothing of the
\* model.
C16_FirstSymbolAtPosition ==
    /\ [](answer # NoAnswer =>
            LET loaded == {f \in Files : pc # "idle" /\ RealPaths[f] = answer.path}
            IN IF loaded = {}
               THEN answer.sym = 0
               ELSE \A f \in loaded :
                      answer.sym = IF Covering(f, answer.line, answer.col) = {}
                                   THEN 0
                                   ELSE Min(Covering(f, answer.line, answer.col)))
    /\ [][answer' # answer =>
            /\ loaderVars' = loaderVars
            /\ binderVars' = binderVars
            /\ reloadVars' = reloadVars]_vars

\* the query hit a column that two Symbols of the row cover, and the second
\* Symbol of the list before the third was returned
C16_Witness ==
    /\ answer.sym = 2
    /\ Cardinality(Covering(1, answer.line, answer.col)) >= 2
    /\ syms[1][1].loc.row = answer.line

\* the keywords after which a uses clause is no longer possible
UsesImpossible ==
    {"label", "var", "const", "type", "procedure", "function", "implementation"}

\* the positions of the stream that hold a token of one of the types T
PositionsIn(T) == {p \in 1..Len(stream) : stream[p] \in T}

\* the stream has a uses keyword and no stop keyword before the first one
UsesComesFirst ==
    /\ PositionsIn({"uses"}) # {}
    /\ \A p \in PositionsIn(UsesImpossible) : p > Min(PositionsIn({"uses"}))

\* the tokens from position u + 1 to s - 1 are items separated by commas,
\* each item an identifier or identifier / identifier
ItemList(u, s) ==
    /\ u + 1 < s
    /\ \A p \in (u + 1)..(s - 1) :
          /\ stream[p] \in {"identifier", "Comma", "Slash"}
          /\ stream[p] = "identifier" =>
                /\ p + 1 = s \/ stream[p + 1] \in {"Comma", "Slash"}
                /\ ~(stream[p - 1] = "Slash" /\ p + 1 < s /\ stream[p + 1] = "Slash")
          /\ stream[p] \in {"Comma", "Slash"} =>
                /\ stream[p - 1] = "identifier"
                /\ p + 1 < s
                /\ stream[p + 1] = "identifier"

\* C17: when the stream has a uses keyword before any stop keyword and the
\* tokens up to the next semicolon are items separated by commas, findUses
\* returns, in source order, one name per item: the identifier of a plain
\* item, the trailing identifier of an item file/unit; what follows the
\* semicolon, a second uses clause included, adds nothing.
C17_OneNamePerItem ==
    (scanPc = "returned" /\ UsesComesFirst) =>
        LET u == Min(PositionsIn({"uses"}))
            semis == {p \in PositionsIn({"Semi"}) : p > u}
        IN (semis # {} /\ ItemList(u, Min(semis))) =>
              res = InOrder({p \in (u + 1)..(Min(semis) - 1) :
                               /\ stream[p] = "identifier"
                               /\ stream[p + 1] # "Slash"})

\* the scan of "uses file/unit;" has returned the unit
C17_Witness ==
    /\ scanPc = "returned"
    /\ stream = <<"uses", "identifier", "Slash", "identifier", "Semi">>
    /\ res = <<4>>

\* C18: findUses returns the empty list when one of the keywords label,
\* var, const, type, procedure, function, implementation comes before the
\* first uses keyword (a later uses clause is not read) and when the stream
\* has neither uses nor such a keyword; and the scan of every finite stream
\* comes to its return, also in a uses clause without semicolon.
C18_EmptyWithoutUsesAndTerminates ==
    /\ <>(scanPc = "returned")
    /\ []((scanPc = "returned" /\ ~UsesComesFirst) => res = << >>)

\* the scan of "implementation uses a;" has returned nothing
C18_Witness ==
    /\ scanPc = "returned"
    /\ stream = <<"implementation", "uses", "identifier", "Semi">>
    /\ res = << >>
    /\ lexPos = 1

\* the scope reached from scope s over k outer links, 0 when the chain ends
\* before
RECURSIVE OuterSteps(_, _)
OuterSteps(s, k) ==
    IF k = 0 \/ s = 0 THEN s ELSE OuterSteps(scopes[s].outer, k - 1)

\* C20: in every state of the binder the outer links lead from every scope,
\* and so from the scope of every Declaration, in finitely many steps to a
\* scope without outer scope: the links form no cycle; and the outer link of
\* a scope is never changed once the scope exists.
C20_ScopeChainsEnd ==
    /\ [](/\ \A s \in ScopeIds :
               /\ scopes[s].outer \in ScopeIds \cup {0}
               /\ \E k \in 0..(Len(scopes) - 1) :
                     /\ OuterSteps(s, k) # 0
                     /\ scopes[OuterSteps(s, k)].outer = 0
               /\ \A k \in 1..Len(scopes) : OuterSteps(s, k) # s
          /\ \A d \in DeclIds : decls[d].owner \in ScopeIds)
    /\ [][ /\ Len(scopes') >= Len(scopes)
           /\ \A s \in ScopeIds : scopes'[s].outer = scopes[s].outer ]_vars

\* a Declaration lies in a scope two outer links away from the top scope
C20_Witness ==
    \E d \in DeclIds :
        /\ scopes[decls[d].owner].outer # 0
        /\ scopes[scopes[decls[d].owner].outer].outer # 0
        /\ scopes[scopes[scopes[decls[d].owner].outer].outer].outer = 0

\* the places of Declaration d: scope and index in the sequence of the scope
PlacesOf(d) ==
    {p \in ScopeIds \X (1..Len(decls)) :
        /\ p[2] <= Len(scopes[p[1]].order)
        /\ scopes[p[1]].order[p[2]] = d}

\* C21: every Declaration stands exactly once in the sequence of exactly one
\* scope, the scope its owner field names; no step of the binder takes a
\* Declaration out of a sequence, moves it or changes its owner.
C21_OneScopePerDeclaration ==
    /\ [](\A d \in DeclIds :
             /\ Cardinality(PlacesOf(d)) = 1
             /\ \A p \in PlacesOf(d) : p[1] = decls[d].owner)
    /\ [][ /\ \A s \in ScopeIds :
                /\ Len(scopes'[s].order) >= Len(scopes[s].order)
                /\ SubSeq(scopes'[s].order, 1, Len(scopes[s].order)) = scopes[s].order
           /\ \A d \in DeclIds : decls'[d].owner = decls[d].owner ]_vars

\* an interface scope and a Body scope below it hold Declarations, the
\* interface scope more than one
C21_Witness ==
    /\ \E s \in ScopeIds : Len(scopes[s].order) >= 2
    /\ \E s \in ScopeIds : scopes[s].outer # 0 /\ scopes[s].order # << >>

\* C22: every identifier the tree holds at a reference position, those inside
\* with statements, case limbs and otherwise clauses included, is looked up
\* and gets a Symbol for the Declaration visible from the scope of its
\* routine when there is one.
C22_EveryReferenceLookedUp ==
    [][(ntok' = ntok + 1 /\ ev'.op \in {"addSym", "passed"}
          /\ ChainLookup(ev'.scope, ev'.name) # 0) =>
            /\ Len(syms'[cf]) = Len(syms[cf]) + 1
            /\ syms'[cf][Len(syms'[cf])].decl = ChainLookup(ev'.scope, ev'.name)]_vars

\* position a comes before position b in the source
Before(a, b) == a.row < b.row \/ (a.row = b.row /\ a.col < b.col)

\* C23: when the binder has walked the tree of a file, the Symbols of the
\* file stand in position order: of any two Symbols of the list the earlier
\* one has the smaller (row, col).
C23_SymbolsInPositionOrder ==
    (cf >= 1 /\ walk = << >>) =>
        \A f \in Files : \A i, j \in 1..Len(syms[f]) :
            i < j => Before(syms[f][i].loc, syms[f][j].loc)

\* C24: in every state, those in the middle of ~CodeFile included, every
\* Symbol that exists and has a Declaration points to a Declaration that
\* exists.
C24_NoSymbolOutlivesDeclaration ==
    \A f \in Files : \A k \in 1..Len(syms[f]) :
        (~(f = cf /\ k <= freedSyms) /\ syms[f][k].decl # 0) =>
            syms[f][k].decl \notin freedDecls

\* C25: the cache is transparent.  In every state the binder reaches by
\* appends and lookups, findDecl from any scope for any name returns what
\* the lookup without cache returns; an entry of the cache of scope S for
\* name N is the first Declaration named N of S's own sequence, and an
\* entry once made is never changed.
C25_CacheTransparent ==
    /\ [](\A s \in ScopeIds : \A n \in Names :
             /\ FindDecl(scopes, decls, s, n).decl = ChainLookup(s, n)
             /\ scopes[s].cache[n] # 0 =>
                   /\ PositionsOf(s, n) # {}
                   /\ scopes[s].cache[n] = scopes[s].order[Min(PositionsOf(s, n))])
    /\ [][\A s \in ScopeIds : \A n \in Names :
             scopes[s].cache[n] # 0 => scopes'[s].cache[n] = scopes[s].cache[n]]_vars

\* a scope answers from its cache although a second Declaration of the name
\* was appended to it after the entry was made
C25_Witness ==
    \E s \in ScopeIds : \E n \in Names :
        /\ scopes[s].cache[n] # 0
        /\ Cardinality(PositionsOf(s, n)) >= 2
        /\ ev.op = "addDecl"

\* the Symbols of file f, by their place in the file's list, that resolve to
\* Declaration d
ResolvingTo(f, d) == {k \in 1..Len(syms[f]) : syms[f][k].decl = d}

\* C26: the reverse-reference list of Declaration d for file f is the
\* subsequence of f's Symbol list made of the Symbols resolving to d: the
\* same Symbols, each once, in the order the file's list has them.
C26_ReferencesAreSubsequence ==
    \A d \in DeclIds : \A f \in Files :
        decls[d].refs[f] = InOrder(ResolvingTo(f, d))

\* the binder met two references to one Declaration, one after the other
C26_Witness ==
    /\ cf # 0
    /\ ev.op = "addSym"
    /\ \E d \in DeclIds : decls[d].refs[cf] = <<1, 2>>

\* C27: declare before use.  A Symbol is made only by a reference and points
\* to a Declaration that was appended before; a Symbol once made keeps its
\* Declaration, and a step that is no reference (the append of a
\* Declaration) makes no Symbol for a reference met earlier; and when the
\* lookup of a name from scope S yields a Declaration of S's own sequence,
\* it yields the same Declaration after every later step.
C27_DeclareBeforeUse ==
    [][ /\ \A f \in Files :
            /\ Len(syms'[f]) >= Len(syms[f])
            /\ \A k \in 1..Len(syms[f]) : syms'[f][k] = syms[f][k]
            /\ \A k \in (Len(syms[f]) + 1)..Len(syms'[f]) :
                  syms'[f][k].decl \in DeclIds
        /\ ev'.op # "addSym" => syms' = syms
        /\ \A s \in ScopeIds : \A n \in Names :
              LET d == FindDecl(scopes, decls, s, n).decl
              IN (d # 0 /\ decls[d].owner = s) =>
                    FindDecl(scopes', decls', s, n).decl = d ]_vars

\* a reference from a Body scope was resolved to a Declaration of the outer
\* scope, and a Declaration of the same name was appended to the Body scope
\* afterwards: the Symbol still points to the outer Declaration
C27_Witness ==
    \E f \in Files : \E k \in 1..Len(syms[f]) : \E d \in DeclIds :
        /\ d > syms[f][k].decl
        /\ decls[d].name = decls[syms[f][k].decl].name
        /\ scopes[decls[d].owner].outer = decls[syms[f][k].decl].owner

\* C28: the Symbol addSym makes for an identifier stands at the position of
\* the identifier and resolves to a Declaration whose name is the text of
\* the identifier, letter for letter; the length getLen gives
\* findSymbolBySourcePos for the Symbol is the length of the identifier.
C28_SymbolTextIsDeclarationName ==
    [][ (ev'.op = "addSym" /\ ev'.result # 0) =>
          LET sy == syms'[cf][Len(syms'[cf])]
          IN /\ Len(syms'[cf]) = Len(syms[cf]) + 1
             /\ sy.loc = ToLoc(Token(ev'.name))
             /\ sy.decl = ev'.result
             /\ decls'[sy.decl].name = ev'.name
             /\ GetLen(sy.decl) = Len(ev'.name) ]_vars

\* x is declared and referenced, and a reference written X, from the same
\* scope, found nothing
C28_Witness ==
    /\ cf # 0
    /\ syms[cf] # << >>
    /\ ev.op = "addSym"
    /\ ev.name = "X"
    /\ ev.result = 0
    /\ ChainLookup(ev.scope, "x") = syms[cf][1].decl

\* C29: whatever pushLocation, onGoBack and onGoForward the user does from
\* empty histories, no place is twice in the back history.
C29_BackHistoryUnique ==
    \A i, j \in 1..Len(backHisto) : i # j => backHisto[i] # backHisto[j]

\* C30: onGoForward right after an onGoBack that found two places or more
\* in the back history leaves both histories as that onGoBack found them
\* and shows the place that was on top; onGoBack on a back history of at
\* most one place and onGoForward on an empty forward history change
\* neither history nor the place shown; the lock is off after onGoBack.
C30_BackForwardRoundTrip ==
    /\ [][ /\ (navEv.op = "back" /\ Len(navEv.back) >= 2 /\ navEv'.op = "forward") =>
                /\ backHisto' = navEv.back
                /\ forwardHisto' = navEv.forward
                /\ shown' = Last(navEv.back)
           /\ (navEv'.op = "back" /\ Len(backHisto) <= 1) =>
                UNCHANGED <<backHisto, forwardHisto, shown>>
           /\ (navEv'.op = "forward" /\ forwardHisto = << >>) =>
                UNCHANGED <<backHisto, forwardHisto, shown>>
           /\ navEv'.op = "back" => ~pushBackLock' ]_vars

\* onGoBack found three places in the back history and one in the forward
\* history, and onGoForward ran right after it
C30_Witness ==
    /\ navEv.op = "forward"
    /\ Len(backHisto) = 3
    /\ Len(forwardHisto) = 1
    /\ shown = Last(backHisto)

C9_BodyWalkedInOwnScope ==
    /\ \A k \in 1..Len(walk) :
          walk[k].rule = "body_" => walk[k].scope = decls[walk[k].decl].body
    /\ (walk # << >> /\ WTop.rule = "body_" /\ ev.op = "addSym") =>
          LET b == decls[WTop.decl].body
          IN PositionsOf(b, ev.name) # {} =>
                ev.result = scopes[b].order[Min(PositionsOf(b, ev.name))]

\* C10: a reference in the implementation part of a unit to a name declared
\* only in the interface part of that unit resolves to the Declaration of
\* the interface and yields a Symbol.
C10_ImplementationSeesInterface ==
    ( /\ ev.op = "addSym"
      /\ fileIntf[cf] # 0
      /\ ev.scope = fileImpl[cf]
      /\ PositionsOf(fileIntf[cf], ev.name) # {}
      /\ PositionsOf(fileImpl[cf], ev.name) = {} ) =>
        /\ ev.result = scopes[fileIntf[cf]].order[Min(PositionsOf(fileIntf[cf], ev.name))]
        /\ syms[cf] # << >>
        /\ syms[cf][Len(syms[cf])].decl = ev.result

====
